---- MODULE Spec2Model ----
(***************************************************************************)
(* Lead ingestion (leadCRM): the POST /api/lead route, the ingestLead      *)
(* coordinator with its raw-then-normalized write sequence, the classifier *)
(* of storage errors, and the two tables leads_raw and leads.              *)
(*                                                                         *)
(* Every request is one asynchronous handler.  A handler runs              *)
(* synchronously up to its next await, so one action is one storage        *)
(* operation executed by the store together with the handler code that     *)
(* runs when the awaited promise settles, up to the next storage call.     *)
(***************************************************************************)
EXTENDS Integers, Sequences, FiniteSets, TLC

\* ------------------------------------------------------------------ bounds

NumReqs == 2      \* requests handled by the server in one behaviour
MaxFaults == 1    \* storage operations the environment may fail

Reqs == 1..NumReqs

\* ------------------------------------------------------------ JS values

Null == [t |-> "null"]
Undefined == [t |-> "undefined"]
Str(s) == [t |-> "string", v |-> s]

\* Truthiness of the values the handler applies || to.
Falsy(v) == v.t \in {"null", "undefined"} \/ (v.t = "string" /\ v.v = "")

\* Mutant: a ?? null, which keeps the empty string.
OrNull_Nullish(v) == IF v.t \in {"null", "undefined"} THEN Null ELSE v

\* a || null
OrNull(v) == IF Falsy(v) THEN Null ELSE v

\* Mutant: the lookup's filter value is lost.
OrUndefined_Lost(v) == Null

\* a || undefined
OrUndefined(v) == IF Falsy(v) THEN Undefined ELSE v

\* ------------------------------------------------------------ field names
\* Names the classifier inspects are character sequences, so that
\* toLowerCase() and includes() are computed and not assumed.

F_idempotencyKey == <<"i","d","e","m","p","o","t","e","n","c","y","K","e","y">>
F_idempotency_key == <<"i","d","e","m","p","o","t","e","n","c","y","_","k","e","y">>
F_idempotency == <<"i","d","e","m","p","o","t","e","n","c","y">>
F_IDEMPOTENCY_KEY == <<"I","D","E","M","P","O","T","E","N","C","Y","_","K","E","Y">>
F_idempotencyToken ==
  <<"i","d","e","m","p","o","t","e","n","c","y","T","o","k","e","n">>
F_id == <<"i","d">>
F_email == <<"e","m","a","i","l">>

ToLowerChar(c) ==
  CASE c = "I" -> "i" [] c = "D" -> "d" [] c = "E" -> "e" [] c = "M" -> "m"
    [] c = "P" -> "p" [] c = "O" -> "o" [] c = "T" -> "t" [] c = "N" -> "n"
    [] c = "C" -> "c" [] c = "Y" -> "y" [] c = "K" -> "k" [] c = "A" -> "a"
    [] c = "L" -> "l" [] OTHER -> c

ToLowerCase(s) == [i \in 1..Len(s) |-> ToLowerChar(s[i])]

\* String.prototype.includes
StrIncludes(s, sub) ==
  \E i \in 0..(Len(s) - Len(sub)) : SubSeq(s, i + 1, i + Len(sub)) = sub

\* Array.prototype.includes
ArrIncludes(arr, x) == \E i \in 1..Len(arr) : arr[i] = x

\* ------------------------------------------------------------ errors

KnownRequestError(code, target, msg) ==
  [class |-> "PrismaClientKnownRequestError", code |-> code,
   target |-> target, message |-> msg]

\* The store rejecting an insert on the idempotency-key uniqueness
\* constraint; the violated field is reported under either spelling.
KeyViolations ==
  { KnownRequestError("P2002", <<F_idempotencyKey>>, "Unique constraint failed on idempotencyKey"),
    KnownRequestError("P2002", <<F_idempotency_key>>, "Unique constraint failed on idempotency_key") }

IdViolation == KnownRequestError("P2002", <<F_id>>, "Unique constraint failed on id")

\* Failures that do not depend on the tables' contents.
ConnectivityError ==
  [class |-> "PrismaClientInitializationError", code |-> "P1001",
   target |-> <<>>, message |-> "Can't reach database server at db:5432"]

UnrelatedViolation ==
  KnownRequestError("P2002", <<F_email>>, "Unique constraint failed on email")

EnvErrors == {ConnectivityError, UnrelatedViolation}

isPrismaUniqueConstraintError(error) ==
  error.class = "PrismaClientKnownRequestError" /\ error.code = "P2002"

\* Mutant: the classifier tests for another error code.
isIdempotencyKeyConstraintError_WrongCode(error) ==
  error.class = "PrismaClientKnownRequestError" /\ error.code = "P2003"

\* Mutant: the classifier does not look at the violated fields.
isIdempotencyKeyConstraintError_AnyUnique(error) ==
  isPrismaUniqueConstraintError(error)

\* Mutant: the violated fields are compared with the two spellings only.
isIdempotencyKeyConstraintError_ExactOnly(error) ==
  /\ isPrismaUniqueConstraintError(error)
  /\ \/ ArrIncludes(error.target, F_idempotencyKey)
     \/ ArrIncludes(error.target, F_idempotency_key)

isIdempotencyKeyConstraintError(error) ==
  IF ~isPrismaUniqueConstraintError(error)
  THEN FALSE
  ELSE LET target == error.target
       IN  \/ ArrIncludes(target, F_idempotencyKey)
           \/ ArrIncludes(target, F_idempotency_key)
           \/ \E i \in 1..Len(target) :
                StrIncludes(ToLowerCase(target[i]), F_idempotency)

formatClientError(error) == [ok |-> FALSE, error |-> "internal_error"]

\* ------------------------------------------------------------ requests

\* CrmLeadPayload objects: a field that is not in the object is absent.
PayloadA ==
  [email |-> Str("a@x.com"), firstName |-> Str("John"),
   phone |-> Str("+371123456789"), country |-> Str("LV")]

PayloadB ==
  [email |-> Str("b@x.com"), firstName |-> Str(""), lastName |-> Null,
   click_id |-> Str("12345"), utm |-> Str("spring")]

ObjectBody(p) == [kind |-> "object", fields |-> p]
\* An array is an object without named fields.
ArrayBody == [kind |-> "array", fields |-> <<>>]
NullBody == [kind |-> "null"]
StringBody == [kind |-> "string"]

\* Header values as Node hands them over.
NoHeader == [kind |-> "absent"]
Hdr(s) == [kind |-> "string", v |-> s]
HdrList(l) == [kind |-> "array", items |-> l]

Headers(k, x) == [key |-> k, xreq |-> x]

Inputs ==
  { [body |-> ObjectBody(PayloadA), headers |-> Headers(NoHeader, NoHeader)],
    [body |-> ObjectBody(PayloadB), headers |-> Headers(HdrList(<<>>), NoHeader)],
    [body |-> ObjectBody(PayloadA), headers |-> Headers(Hdr("k1"), Hdr("req-1"))],
    [body |-> ObjectBody(PayloadB), headers |-> Headers(HdrList(<<"k1", "k9">>), NoHeader)],
    [body |-> ObjectBody(PayloadA), headers |-> Headers(Hdr("k2"), NoHeader)],
    [body |-> ObjectBody(PayloadB), headers |-> Headers(Hdr(""), Hdr(""))],
    [body |-> ArrayBody, headers |-> Headers(Hdr("k1"), NoHeader)],
    [body |-> NullBody, headers |-> Headers(NoHeader, NoHeader)],
    [body |-> StringBody, headers |-> Headers(NoHeader, NoHeader)] }

\* headerName.toLowerCase() of the two names the route asks for.
HeaderNameLower(name) ==
  CASE name = "Idempotency-Key" -> "idempotency-key"
    [] name = "X-Request-Id" -> "x-request-id"
    [] OTHER -> name

\* request.headers[normalizedName]
HeaderValue(headers, normalizedName) ==
  CASE normalizedName = "idempotency-key" -> headers.key
    [] normalizedName = "x-request-id" -> headers.xreq
    [] OTHER -> NoHeader

getHeader(headers, headerName) ==
  LET value == HeaderValue(headers, HeaderNameLower(headerName))
  IN  IF value.kind = "string" THEN Str(value.v)
      ELSE IF value.kind = "array" /\ Len(value.items) > 0 THEN Str(value.items[1])
      ELSE Null

\* typeof value
TypeOf(value) ==
  IF value.kind \in {"object", "array", "null"} THEN "object" ELSE value.kind

\* Mutant: arrays are not excluded.
isValidObject_NoArrayCheck(value) ==
  TypeOf(value) = "object" /\ value.kind # "null"

isValidObject(value) ==
  TypeOf(value) = "object" /\ value.kind # "null" /\ value.kind # "array"

isCrmLeadPayload(body) == isValidObject(body)

\* payload.<name>
Field(payload, name) ==
  IF name \in DOMAIN payload THEN payload[name] ELSE Undefined

\* ------------------------------------------------------------ state

VARIABLES
  leadsRaw,       \* table leads_raw: the rows created by prisma.leadRaw.create
  leads,          \* table leads: the rows created by prisma.lead.create
  pc,             \* per request: "idle", "ingest" (inside ingestLead), "done"
  body,           \* per request: request.body
  idempotencyKey, \* per request: getHeader(request, 'idempotency-key')
  xRequestId,     \* per request: getHeader(request, 'x-request-id')
  leadId,         \* per request: the identifier ingestLead generated (0: none)
  inflight,       \* per request: storage operations issued and not yet settled
  issued,         \* per request: the storage operations issued, in order
  log,            \* per request: the messages the handler logged, in order
  result,         \* per request: how ingestLead ended
  reply,          \* per request: the HTTP response
  returnedBefore, \* per request: the requests answered before it arrived
  partialAtArrival, \* per request: its key had a raw row and no lead row then
  caught,         \* per request: the error caught from prisma.lead.create
  uuidCounter,    \* identifiers handed out by randomUUID so far
  faults          \* storage operations the environment has failed so far

vars ==
  <<leadsRaw, leads, pc, body, idempotencyKey, xRequestId, leadId, inflight,
    issued, log, result, reply, returnedBefore, partialAtArrival, caught,
    uuidCounter, faults>>

NoResult == [kind |-> "none"]
Returned(v) == [kind |-> "returned", value |-> v]
Thrown(e) == [kind |-> "thrown", error |-> e]
NoReply == [code |-> 0]
Reply(code, b) == [code |-> code, body |-> b]

Init ==
  /\ leadsRaw = {}
  /\ leads = {}
  /\ pc = [r \in Reqs |-> "idle"]
  /\ body = [r \in Reqs |-> NullBody]
  /\ idempotencyKey = [r \in Reqs |-> Null]
  /\ xRequestId = [r \in Reqs |-> Null]
  /\ leadId = [r \in Reqs |-> 0]
  /\ inflight = [r \in Reqs |-> {}]
  /\ issued = [r \in Reqs |-> <<>>]
  /\ log = [r \in Reqs |-> <<>>]
  /\ result = [r \in Reqs |-> NoResult]
  /\ reply = [r \in Reqs |-> NoReply]
  /\ returnedBefore = [r \in Reqs |-> {}]
  /\ partialAtArrival = [r \in Reqs |-> FALSE]
  /\ caught = [r \in Reqs |-> Null]
  /\ uuidCounter = 0
  /\ faults = 0

\* ------------------------------------------------------------ the store

Ok == [ok |-> TRUE]
Fail(e) == [ok |-> FALSE, error |-> e]

\* Mutant: only the primary key is unique.
InsertOutcomes_NoKeyConstraint(table, data) ==
  IF \E row \in table : row.id = data.id THEN {Fail(IdViolation)} ELSE {Ok}

\* What a single-row insert into a table does: the primary key and the
\* idempotency key are unique, and null keys are never in conflict.
InsertOutcomes(table, data) ==
  IF \E row \in table : row.id = data.id
  THEN {Fail(IdViolation)}
  ELSE IF data.idempotencyKey # Null
          /\ \E row \in table : row.idempotencyKey = data.idempotencyKey
       THEN {Fail(e) : e \in KeyViolations}
       ELSE {Ok}

\* Mutant: the write replaces the rows that carry the same key.
InsertRow_Upsert(table, data) ==
  {row \in table : row.idempotencyKey # data.idempotencyKey} \cup {data}

\* The effect of an accepted create: one more row, the others untouched.
InsertRow(table, data) == table \cup {data}

\* The failures the environment may add to an insert, and to a read (which
\* violates no constraint).
EnvOutcomes == IF faults < MaxFaults THEN {Fail(e) : e \in EnvErrors} ELSE {}

ReadEnvOutcomes == IF faults < MaxFaults THEN {Fail(ConnectivityError)} ELSE {}

\* prisma.lead.findFirst({where: {idempotencyKey: key}, select: {id: true}}):
\* an undefined filter value matches every row; no order is asked for.
FindFirstOutcomes(table, key) ==
  LET matching == {row \in table : key = Undefined \/ row.idempotencyKey = key}
  IN  IF matching = {}
      THEN {[ok |-> TRUE, found |-> FALSE]}
      ELSE {[ok |-> TRUE, found |-> TRUE, id |-> row.id] : row \in matching}

\* Mutant: the identifier is generated once, not per call.
randomUUID_Once(counter) == 1

\* crypto.randomUUID(): a value never handed out before.
randomUUID(counter) == counter + 1

\* ------------------------------------------------------------ ingestLead

Info(msg) == [level |-> "info", msg |-> msg]
Warn(msg) == [level |-> "warn", msg |-> msg]
Error(msg) == [level |-> "error", msg |-> msg]

\* logError(error, {step, ...})
logError(error, step) ==
  [level |-> "error", msg |-> "Error occurred during lead ingestion",
   step |-> step, errorMessage |-> error.message]

payload(r) == body[r].fields

\* Mutant: the raw row is created without the generated identifier.
RawData_NoId(r) ==
  [id |-> 0,
   idempotencyKey |-> OrNull(idempotencyKey[r]),
   xRequestId |-> OrNull(xRequestId[r]),
   payload |-> payload(r)]

\* Mutant: the raw row is created without the idempotency key.
RawData_NoKey(r) ==
  [id |-> leadId[r],
   idempotencyKey |-> Null,
   xRequestId |-> OrNull(xRequestId[r]),
   payload |-> payload(r)]

\* The data of prisma.leadRaw.create
RawData(r) ==
  [id |-> leadId[r],
   idempotencyKey |-> OrNull(idempotencyKey[r]),
   xRequestId |-> OrNull(xRequestId[r]),
   payload |-> payload(r)]

\* Mutant: the lead row is created without the idempotency key.
LeadData_NoKey(r) ==
  [id |-> leadId[r],
   clickId |-> OrNull(Field(payload(r), "click_id")),
   country |-> OrNull(Field(payload(r), "country")),
   creo |-> OrNull(Field(payload(r), "creo")),
   description |-> OrNull(Field(payload(r), "description")),
   domain |-> OrNull(Field(payload(r), "domain")),
   email |-> OrNull(Field(payload(r), "email")),
   firstName |-> OrNull(Field(payload(r), "firstName")),
   lastName |-> OrNull(Field(payload(r), "lastName")),
   ip |-> OrNull(Field(payload(r), "ip")),
   lang |-> OrNull(Field(payload(r), "lang")),
   marker |-> OrNull(Field(payload(r), "marker")),
   offer |-> OrNull(Field(payload(r), "offer")),
   phone |-> OrNull(Field(payload(r), "phone")),
   sourcetype |-> OrNull(Field(payload(r), "sourcetype")),
   idempotencyKey |-> Null,
   xRequestId |-> OrNull(xRequestId[r]),
   status |-> "new"]

\* The data of prisma.lead.create
LeadData(r) ==
  [id |-> leadId[r],
   clickId |-> OrNull(Field(payload(r), "click_id")),
   country |-> OrNull(Field(payload(r), "country")),
   creo |-> OrNull(Field(payload(r), "creo")),
   description |-> OrNull(Field(payload(r), "description")),
   domain |-> OrNull(Field(payload(r), "domain")),
   email |-> OrNull(Field(payload(r), "email")),
   firstName |-> OrNull(Field(payload(r), "firstName")),
   lastName |-> OrNull(Field(payload(r), "lastName")),
   ip |-> OrNull(Field(payload(r), "ip")),
   lang |-> OrNull(Field(payload(r), "lang")),
   marker |-> OrNull(Field(payload(r), "marker")),
   offer |-> OrNull(Field(payload(r), "offer")),
   phone |-> OrNull(Field(payload(r), "phone")),
   sourcetype |-> OrNull(Field(payload(r), "sourcetype")),
   idempotencyKey |-> OrNull(idempotencyKey[r]),
   xRequestId |-> OrNull(xRequestId[r]),
   status |-> "new"]

\* Mutant: both inserts are started together.
OpsAtStart_Parallel == {"raw", "lead"}

\* Mutant: a rejected lead insert is tried again.
OpsAfterConflict_Retry == {"lead"}

\* The storage operations ingestLead has in flight at each await.
OpsAtStart == {"raw"}
OpsAfterRaw == {"lead"}
OpsAfterConflict == {"lookup"}

\* The operations of `ops` in the order the code issues them.
OpsInOrder(ops) == SelectSeq(<<"raw", "lead", "lookup">>, LAMBDA o : o \in ops)

Success(id, dedup) ==
  [success |-> TRUE,
   response |-> [ok |-> TRUE, lead_id |-> id, deduplicated |-> dedup]]

Failure(error) == [success |-> FALSE, error |-> error]

\* ------------------------------------------------------------ the route

\* Mutant: a deduplicated lead is answered like a created one.
RouteReply_NoConflictStatus(res) ==
  IF res.success
  THEN Reply(201, res.response)
  ELSE Reply(500, formatClientError(res.error))

\* The route's handling of the value ingestLead returned.
RouteReply(res) ==
  IF res.success
  THEN Reply(IF res.response.deduplicated THEN 409 ELSE 201, res.response)
  ELSE Reply(500, formatClientError(res.error))

RouteLog(res) ==
  IF res.success
  THEN Info(IF res.response.deduplicated
            THEN "Lead deduplicated successfully"
            ELSE "Lead created successfully")
  ELSE Error("Failed to ingest lead")

\* The handler has no try/catch around ingestLead and the server installs no
\* error handler: a rejected handler is answered by the framework, which
\* serializes the error.
FrameworkErrorReply(error) ==
  Reply(500, [statusCode |-> 500, code |-> error.code,
              error |-> "Internal Server Error", message |-> error.message])

InvalidPayloadReply == Reply(400, [ok |-> FALSE, error |-> "invalid_payload"])

\* The response of a call whose lookup found `existingLead`.
DeduplicatedResponse_OwnId(r, existingLead) == Success(leadId[r], TRUE)

DeduplicatedResponse(r, existingLead) == Success(existingLead.id, TRUE)

\* ingestLead returns `res` after logging `entries`; the route answers.
Return(r, res, entries) ==
  /\ result' = [result EXCEPT ![r] = Returned(res)]
  /\ reply' = [reply EXCEPT ![r] = RouteReply(res)]
  /\ log' = [log EXCEPT ![r] = @ \o entries \o <<RouteLog(res)>>]
  /\ pc' = [pc EXCEPT ![r] = "done"]
  /\ inflight' = [inflight EXCEPT ![r] = {}]
  /\ UNCHANGED issued

\* ingestLead issues the storage operations `ops` after logging `entry`.
Continue(r, done, ops, entry) ==
  /\ inflight' = [inflight EXCEPT ![r] = (@ \ {done}) \cup ops]
  /\ issued' = [issued EXCEPT ![r] = @ \o OpsInOrder(ops)]
  /\ log' = [log EXCEPT ![r] = Append(@, entry)]
  /\ UNCHANGED <<pc, result, reply>>

CountFault(out) ==
  faults' = IF ~out.ok /\ out.error \in EnvErrors THEN faults + 1 ELSE faults

\* POST /api/lead up to the first await of ingestLead.
Receive(r) ==
  /\ pc[r] = "idle"
  /\ (IF r = 1 THEN TRUE ELSE pc[r - 1] # "idle")
  /\ \E in \in Inputs :
       /\ body' = [body EXCEPT ![r] = in.body]
       /\ idempotencyKey' =
            [idempotencyKey EXCEPT ![r] = getHeader(in.headers, "idempotency-key")]
       /\ xRequestId' =
            [xRequestId EXCEPT ![r] = getHeader(in.headers, "x-request-id")]
       /\ returnedBefore' =
            [returnedBefore EXCEPT ![r] = {q \in Reqs : pc[q] = "done"}]
       /\ partialAtArrival' =
            [partialAtArrival EXCEPT ![r] =
               LET k == getHeader(in.headers, "idempotency-key") IN
                 /\ ~Falsy(k)
                 /\ \E row \in leadsRaw : row.idempotencyKey = k
                 /\ \A row \in leads : row.idempotencyKey # k]
       /\ IF ~isCrmLeadPayload(in.body)
          THEN /\ reply' = [reply EXCEPT ![r] = InvalidPayloadReply]
               /\ pc' = [pc EXCEPT ![r] = "done"]
               /\ log' = [log EXCEPT ![r] =
                            <<Info("Received lead ingestion request"),
                              Warn("Invalid request body - not an object")>>]
               /\ UNCHANGED <<leadId, inflight, issued, uuidCounter>>
          ELSE /\ leadId' = [leadId EXCEPT ![r] = randomUUID(uuidCounter)]
               /\ uuidCounter' = randomUUID(uuidCounter)
               /\ pc' = [pc EXCEPT ![r] = "ingest"]
               /\ inflight' = [inflight EXCEPT ![r] = OpsAtStart]
               /\ issued' = [issued EXCEPT ![r] = OpsInOrder(OpsAtStart)]
               /\ log' = [log EXCEPT ![r] =
                            <<Info("Received lead ingestion request"),
                              Info("Starting lead ingestion")>>]
               /\ UNCHANGED reply
  /\ UNCHANGED <<leadsRaw, leads, result, caught, faults>>

\* Step 1, from the settling of prisma.leadRaw.create with `out` to the
\* next await or return.
RawSettled(r, out) ==
  /\ CountFault(out)
  /\ leadsRaw' = IF out.ok THEN InsertRow(leadsRaw, RawData(r)) ELSE leadsRaw
  /\ IF out.ok
     THEN Continue(r, "raw", OpsAfterRaw, Info("Raw lead stored successfully"))
     ELSE IF isIdempotencyKeyConstraintError(out.error)
     THEN Continue(r, "raw", OpsAfterRaw,
            Info("Raw lead already exists (idempotency key conflict), continuing with normalized storage"))
     ELSE Return(r, Failure(out.error), <<logError(out.error, "raw_storage")>>)
  /\ UNCHANGED <<leads, body, idempotencyKey, xRequestId, leadId,
                 returnedBefore, partialAtArrival, caught, uuidCounter>>

\* Step 1: prisma.leadRaw.create settles.
RawCreate(r) ==
  /\ pc[r] = "ingest"
  /\ "raw" \in inflight[r]
  /\ \E out \in InsertOutcomes(leadsRaw, RawData(r)) \cup EnvOutcomes :
       RawSettled(r, out)

\* Step 2, from the settling of prisma.lead.create with `out` to the next
\* await or return.
LeadSettled(r, out) ==
  /\ CountFault(out)
  /\ leads' = IF out.ok THEN InsertRow(leads, LeadData(r)) ELSE leads
  /\ IF out.ok
     THEN /\ Return(r, Success(leadId[r], FALSE),
                    <<Info("Lead created successfully")>>)
          /\ UNCHANGED caught
     ELSE IF isIdempotencyKeyConstraintError(out.error)
     THEN /\ Continue(r, "lead", OpsAfterConflict,
                      Info("Lead deduplicated (idempotency key match)"))
          /\ caught' = [caught EXCEPT ![r] = out.error]
     ELSE /\ Return(r, Failure(out.error),
                    <<logError(out.error, "normalized_storage")>>)
          /\ UNCHANGED caught
  /\ UNCHANGED <<leadsRaw, body, idempotencyKey, xRequestId, leadId,
                 returnedBefore, partialAtArrival, uuidCounter>>

\* Step 2: prisma.lead.create settles.
LeadCreate(r) ==
  /\ pc[r] = "ingest"
  /\ "lead" \in inflight[r]
  /\ \E out \in InsertOutcomes(leads, LeadData(r)) \cup EnvOutcomes :
       LeadSettled(r, out)

\* The lookup after a key conflict: prisma.lead.findFirst settles.  It is
\* awaited inside the catch block, so its rejection leaves ingestLead.
Lookup(r) ==
  /\ pc[r] = "ingest"
  /\ "lookup" \in inflight[r]
  /\ \E out \in FindFirstOutcomes(leads, OrUndefined(idempotencyKey[r]))
                  \cup ReadEnvOutcomes :
       /\ CountFault(out)
       /\ IF ~out.ok
          THEN /\ result' = [result EXCEPT ![r] = Thrown(out.error)]
               /\ reply' = [reply EXCEPT ![r] = FrameworkErrorReply(out.error)]
               /\ pc' = [pc EXCEPT ![r] = "done"]
               /\ inflight' = [inflight EXCEPT ![r] = {}]
               /\ UNCHANGED <<issued, log>>
          ELSE IF ~out.found
          THEN Return(r, Failure(caught[r]),
                 <<Error("Idempotency key conflict but existing lead not found")>>)
          ELSE Return(r, DeduplicatedResponse(r, out), <<>>)
  /\ UNCHANGED <<leadsRaw, leads, body, idempotencyKey, xRequestId, leadId,
                 returnedBefore, partialAtArrival, caught, uuidCounter>>

Next == \E r \in Reqs : Receive(r) \/ RawCreate(r) \/ LeadCreate(r) \/ Lookup(r)

Spec == Init /\ [][Next]_vars

\* ------------------------------------------------------------ vocabulary

Done(r) == pc[r] = "done"

\* The route called ingestLead for request r.
Ingested(r) == pc[r] # "idle" /\ isCrmLeadPayload(body[r])

ReturnedValue(r) == result[r].kind = "returned"
Succeeded(r) == ReturnedValue(r) /\ result[r].value.success
FailedResult(r) == ReturnedValue(r) /\ ~result[r].value.success
Deduplicated(r) == Succeeded(r) /\ result[r].value.response.deduplicated
Created(r) == Succeeded(r) /\ ~result[r].value.response.deduplicated
ReturnedId(r) == result[r].value.response.lead_id

\* A storage operation of request r failed for a reason of the environment.
EnvFaulted(r) ==
  \/ result[r].kind = "thrown" /\ result[r].error \in EnvErrors
  \/ FailedResult(r) /\ result[r].value.error \in EnvErrors

Logged(r, msg) == \E i \in 1..Len(log[r]) : log[r][i].msg = msg

LoggedError(r, step) ==
  \E i \in 1..Len(log[r]) :
    /\ log[r][i].msg = "Error occurred during lead ingestion"
    /\ log[r][i].step = step

LeadsWithKey(k) == {row \in leads : row.idempotencyKey = k}
RawWithKey(k) == {row \in leadsRaw : row.idempotencyKey = k}

\* Call a returned before call b was made; both ran without a storage fault.
Sequential(a, b) ==
  /\ a # b /\ Ingested(a) /\ Ingested(b) /\ Done(a) /\ Done(b)
  /\ a \in returnedBefore[b]
  /\ ~EnvFaulted(a) /\ ~EnvFaulted(b)

DedupOfSecond(a, b) ==
  /\ Cardinality(LeadsWithKey(idempotencyKey[a])) = 1
  /\ Succeeded(a) /\ Succeeded(b)
  /\ ReturnedId(b) = ReturnedId(a)
  /\ Deduplicated(b)

\* ------------------------------------------------------------ C1

\* C1 as stated: two ingestLead calls made one after the other with the same
\* non-null idempotency key leave exactly one lead row with that key, and the
\* second returns the first's lead_id with deduplicated = true.
C1_AsStated ==
  \A a, b \in Reqs :
    (Sequential(a, b) /\ idempotencyKey[a] = idempotencyKey[b]
       /\ idempotencyKey[a] # Null)
    => DedupOfSecond(a, b)

\* C1, amended: the same for every key that is neither null nor the empty
\* string (an empty key is stored as null and never deduplicates).
C1_SequentialDedup ==
  \A a, b \in Reqs :
    (Sequential(a, b) /\ idempotencyKey[a] = idempotencyKey[b]
       /\ ~Falsy(idempotencyKey[a]))
    => DedupOfSecond(a, b)

C1_Witness ==
  \E a, b \in Reqs :
    /\ Sequential(a, b) /\ idempotencyKey[a] = idempotencyKey[b]
    /\ ~Falsy(idempotencyKey[a])
    /\ Created(a) /\ Deduplicated(b) /\ ReturnedId(b) = leadId[a]

\* ------------------------------------------------------------ C2

CallsWithKey(k) == {r \in Reqs : Ingested(r) /\ idempotencyKey[r] = k}

\* Two calls of S overlapped: neither had returned when the other arrived.
Overlapped(a, b) == a # b /\ a \notin returnedBefore[b] /\ b \notin returnedBefore[a]

OneLeadForAll(k) ==
  LET S == CallsWithKey(k)
  IN  (/\ Cardinality(S) >= 2
       /\ \A r \in S : Done(r) /\ ~EnvFaulted(r))
      => /\ Cardinality(LeadsWithKey(k)) = 1
         /\ \A r \in S : Succeeded(r)
         /\ \A q, r \in S : ReturnedId(q) = ReturnedId(r)
         /\ Cardinality({r \in S : Created(r)}) <= 1

Keys == {idempotencyKey[r] : r \in Reqs}

\* C2 as stated: N >= 2 calls carrying the same idempotency key, interleaved
\* in any order, leave exactly one lead row with that key, all return the
\* same lead_id and at most one returns deduplicated = false.
C2_AsStated == \A k \in Keys : k # Null => OneLeadForAll(k)

\* C2, amended: the same for every key that is neither null nor empty.
C2_ConcurrentDedup == \A k \in Keys : ~Falsy(k) => OneLeadForAll(k)

\* Two overlapping calls, the one that arrived first deduplicated against
\* the lead written by the one that arrived second.
C2_Witness ==
  \E a, b \in Reqs :
    /\ a < b /\ Overlapped(a, b) /\ Done(a) /\ Done(b)
    /\ Ingested(a) /\ Ingested(b)
    /\ idempotencyKey[a] = idempotencyKey[b] /\ ~Falsy(idempotencyKey[a])
    /\ Created(b) /\ Deduplicated(a) /\ ReturnedId(a) = leadId[b]

\* ------------------------------------------------------------ C3

\* C3: a call with a null idempotency key whose storage operations do not
\* fail writes one raw row and one lead row under its own generated
\* identifier, which no other call and no other row carries, and returns
\* that identifier with deduplicated = false.
C3_NullKeyAlwaysCreates ==
  \A r \in Reqs :
    (Ingested(r) /\ Done(r) /\ idempotencyKey[r] = Null /\ ~EnvFaulted(r))
    => /\ Created(r) /\ ReturnedId(r) = leadId[r]
       /\ {row \in leadsRaw : row.id = leadId[r]} = {RawData(r)}
       /\ {row \in leads : row.id = leadId[r]} = {LeadData(r)}
       /\ \A q \in Reqs \ {r} : leadId[q] # leadId[r]

\* Two null-key calls, both done: two raw rows and two lead rows.
C3_Witness ==
  \E a, b \in Reqs :
    /\ a # b /\ Ingested(a) /\ Ingested(b) /\ Done(a) /\ Done(b)
    /\ idempotencyKey[a] = Null /\ idempotencyKey[b] = Null
    /\ Created(a) /\ Created(b)
    /\ Cardinality(RawWithKey(Null)) = 2 /\ Cardinality(LeadsWithKey(Null)) = 2

\* ------------------------------------------------------------ C4

\* C4: when a call's raw insert succeeded and its lead insert then failed
\* for a reason other than the idempotency-key constraint, the call returns
\* failure, its raw row is in the raw table and no lead row has its id.
C4_RawSurvivesLeadFailure ==
  \A r \in Reqs :
    (/\ Done(r)
     /\ Logged(r, "Raw lead stored successfully")
     /\ LoggedError(r, "normalized_storage"))
    => /\ FailedResult(r)
       /\ \E row \in leadsRaw :
            /\ row.id = leadId[r]
            /\ row.idempotencyKey = OrNull(idempotencyKey[r])
            /\ row.payload = body[r].fields
       /\ \A row \in leads : row.id # leadId[r]

C4_Witness ==
  \E r \in Reqs :
    /\ Done(r)
    /\ Logged(r, "Raw lead stored successfully")
    /\ LoggedError(r, "normalized_storage")
    /\ FailedResult(r) /\ result[r].value.error = ConnectivityError
    /\ \E row \in leadsRaw : row.id = leadId[r] /\ row.payload = body[r].fields

\* ------------------------------------------------------------ C5

C6_RawStrictlyBeforeLead ==
  \A r \in Reqs :
    Ingested(r)
    => /\ Len(issued[r]) >= 1 /\ issued[r][1] = "raw"
       /\ ~({"raw", "lead"} \subseteq inflight[r])
       /\ \A i \in 1..Len(issued[r]) :
            issued[r][i] = "lead" => (i > 1 /\ "raw" \notin inflight[r])

C6_Witness ==
  \E r \in Reqs : issued[r] = <<"raw", "lead">> /\ inflight[r] = {"lead"}

\* ------------------------------------------------------------ C7

\* C7 as stated: every ingestLead call ends by returning a success or a
\* failure value; no storage failure leaves it as an exception.
C7_AlwaysReturnsAValue ==
  \A r \in Reqs : (Ingested(r) /\ Done(r)) => ReturnedValue(r)

\* ------------------------------------------------------------ C8

\* C8 as stated: every request with an object body that does not end in a
\* success is answered 500 with exactly {ok: false, error: 'internal_error'}.
C8_GenericErrorBody ==
  \A r \in Reqs :
    (Done(r) /\ body[r].kind = "object" /\ ~Succeeded(r))
    => reply[r] = [code |-> 500,
                   body |-> [ok |-> FALSE, error |-> "internal_error"]]

\* ------------------------------------------------------------ C9

\* C9: created gives 201, deduplicated gives 409, failure gives 500, and
\* only they do; a success body carries ok = true and the returned lead_id.
C9_StatusMapping ==
  \A r \in Reqs :
    (Done(r) /\ ReturnedValue(r))
    => /\ Created(r) <=> reply[r].code = 201
       /\ Deduplicated(r) <=> reply[r].code = 409
       /\ FailedResult(r) <=> reply[r].code = 500
       /\ Succeeded(r)
            => /\ reply[r].body.ok = TRUE
               /\ reply[r].body.lead_id = ReturnedId(r)
               /\ reply[r].body.deduplicated = Deduplicated(r)

\* A 409 carrying the identifier an earlier 201 carried.
C9_Witness ==
  \E a, b \in Reqs :
    /\ a # b /\ Done(a) /\ Done(b) /\ Created(a) /\ Deduplicated(b)
    /\ reply[a].code = 201 /\ reply[b].code = 409
    /\ reply[b].body.lead_id = reply[a].body.lead_id

\* ------------------------------------------------------------ C10

RejectedUnseen(r) ==
  /\ Done(r)
  /\ reply[r] = [code |-> 400, body |-> [ok |-> FALSE, error |-> "invalid_payload"]]
  /\ result[r] = NoResult
  /\ issued[r] = <<>> /\ inflight[r] = {} /\ leadId[r] = 0
  /\ ~Logged(r, "Starting lead ingestion")

\* C10: a request whose body is an array, a scalar or null is answered 400
\* invalid_payload, ingestLead is not called for it, and its arrival leaves
\* both tables as they were.
C10_InvalidBodyRejected ==
  /\ [](\A r \in Reqs :
          (pc[r] # "idle" /\ body[r].kind # "object") => RejectedUnseen(r))
  /\ [][\A r \in Reqs :
          (pc[r] = "idle" /\ pc'[r] # "idle" /\ body'[r].kind # "object")
          => (leadsRaw' = leadsRaw /\ leads' = leads)]_vars

\* An array body rejected while the tables hold another request's rows.
C10_Witness ==
  \E a, b \in Reqs :
    /\ Created(a) /\ a \in returnedBefore[b]
    /\ body[b].kind = "array" /\ RejectedUnseen(b)
    /\ Cardinality(leadsRaw) = 1 /\ Cardinality(leads) = 1

\* ------------------------------------------------------------ C11

NullKeyRows(table) == {row \in table : row.idempotencyKey = Null}

KeyUnique(table) ==
  \A a \in table : \A b \in table :
    (a # b /\ a.idempotencyKey = b.idempotencyKey) => a.idempotencyKey = Null

\* C11: in every reachable state neither the raw table nor the lead table
\* holds two rows with the same non-null idempotency key (rows with a null
\* key are not constrained).
C11_KeyUniquePerTable == KeyUnique(leadsRaw) /\ KeyUnique(leads)

\* A second call with a key already stored has been through both inserts,
\* and each table still holds one row with that key.
C11_Witness ==
  \E r \in Reqs :
    /\ Deduplicated(r)
    /\ Logged(r, "Raw lead already exists (idempotency key conflict), continuing with normalized storage")
    /\ Cardinality(RawWithKey(idempotencyKey[r])) = 1
    /\ Cardinality(LeadsWithKey(idempotencyKey[r])) = 1

\* Rows with a null key coexist in each table.
C11_NullKeysCoexist ==
  Cardinality(NullKeyRows(leadsRaw)) >= 2 /\ Cardinality(NullKeyRows(leads)) >= 2

\* ------------------------------------------------------------ C12
\* The classifier on its own: one call of ingestLead against a store whose
\* inserts reject with any error of a sample, whatever the tables hold.

PlainError(code, target, msg) ==
  [class |-> "Error", code |-> code, target |-> target, message |-> msg]

ErrorSamples ==
  KeyViolations \cup EnvErrors \cup
  { IdViolation,
    KnownRequestError("P2002", <<F_IDEMPOTENCY_KEY>>, "Unique constraint failed on IDEMPOTENCY_KEY"),
    KnownRequestError("P2002", <<F_idempotencyToken>>, "Unique constraint failed on idempotencyToken"),
    KnownRequestError("P2002", <<F_email, F_idempotencyKey>>, "Unique constraint failed on (email, idempotencyKey)"),
    KnownRequestError("P2002", <<F_email, F_id>>, "Unique constraint failed on (email, id)"),
    KnownRequestError("P2002", <<>>, "Unique constraint failed"),
    KnownRequestError("P2003", <<F_idempotencyKey>>, "Foreign key constraint failed on idempotencyKey"),
    PlainError("P2002", <<F_idempotencyKey>>, "P2002 idempotencyKey") }

ClassifyRaw(r) ==
  /\ pc[r] = "ingest"
  /\ "raw" \in inflight[r]
  /\ \E out \in {Ok} \cup {Fail(e) : e \in ErrorSamples} : RawSettled(r, out)

ClassifyLead(r) ==
  /\ pc[r] = "ingest"
  /\ "lead" \in inflight[r]
  /\ \E out \in {Ok} \cup {Fail(e) : e \in ErrorSamples} : LeadSettled(r, out)

NextClassify == Receive(1) \/ ClassifyRaw(1) \/ ClassifyLead(1) \/ Lookup(1)

SpecClassify == Init /\ [][NextClassify]_vars

\* A uniqueness violation whose violated fields include the idempotency key
\* under one of its two spellings, whatever the letter case.
NamesKeySpelling(error) ==
  /\ isPrismaUniqueConstraintError(error)
  /\ \E i \in 1..Len(error.target) :
       ToLowerCase(error.target[i]) \in
         {ToLowerCase(F_idempotencyKey), ToLowerCase(F_idempotency_key)}

\* A uniqueness violation with a violated field whose lower-cased name
\* contains "idempotency".
NamesIdempotency(error) ==
  /\ isPrismaUniqueConstraintError(error)
  /\ \E i \in 1..Len(error.target) :
       StrIncludes(ToLowerCase(error.target[i]), F_idempotency)

\* What the call did with a rejected insert: the lead insert's error is
\* kept in `caught` when it was classified as a key conflict; a fatal error
\* of either insert is logged with its step and returned.
FatalError(r) ==
  (LoggedError(r, "raw_storage") \/ LoggedError(r, "normalized_storage"))

ClassifiedBy(IsKey(_)) ==
  \A r \in Reqs :
    /\ caught[r] # Null => IsKey(caught[r])
    /\ FatalError(r) =>
         Done(r) /\ FailedResult(r) /\ ~IsKey(result[r].value.error)

C13_DedupReturnsStoredLead ==
  \A r \in Reqs :
    Deduplicated(r) =>
      /\ ~Falsy(idempotencyKey[r])
      /\ \E row \in leads :
           /\ row.id = ReturnedId(r)
           /\ row.idempotencyKey = idempotencyKey[r]
      /\ ReturnedId(r) # leadId[r]
      /\ \A row \in leads : row.id # leadId[r]

\* A call returned deduplicated = true with the identifier of another call.
C13_Witness ==
  \E r \in Reqs : \E q \in Reqs \ {r} :
    /\ Deduplicated(r)
    /\ ReturnedId(r) = leadId[q]
    /\ Created(q)

\* ------------------------------------------------------------ C14

\* In this step the raw insert of request r settles.
RawSettles(r) == "raw" \in inflight[r] /\ "raw" \notin inflight'[r]

\* C14: when a call's raw insert fails with anything other than a uniqueness
\* violation on the idempotency key, the call returns failure in that step,
\* both tables are left as they were, and neither the lead insert nor the
\* lookup is ever issued for it.
C14_RawFailureIsFatal ==
  /\ [][\A r \in Reqs :
          (RawSettles(r) /\ faults' = faults + 1) =>
            /\ leadsRaw' = leadsRaw
            /\ leads' = leads
            /\ pc'[r] = "done"
            /\ result'[r].kind = "returned"
            /\ ~result'[r].value.success
            /\ result'[r].value.error \in EnvErrors
            /\ issued'[r] = <<"raw">>]_vars
  /\ [](\A r \in Reqs :
          LoggedError(r, "raw_storage") =>
            /\ Done(r) /\ FailedResult(r)
            /\ issued[r] = <<"raw">>
            /\ \A row \in leadsRaw \cup leads : row.id # leadId[r])

\* A call failed at its raw insert while the tables held another call's rows.
C14_Witness ==
  \E r \in Reqs :
    /\ LoggedError(r, "raw_storage")
    /\ FailedResult(r)
    /\ leadsRaw # {} /\ leads # {}

\* ------------------------------------------------------------ C15

\* The store rejects the raw insert of request r on the key: a raw row with
\* the key the call stores is there when the insert settles.
RawKeyRejected(r) ==
  /\ RawSettles(r)
  /\ faults' = faults
  /\ OrNull(idempotencyKey[r]) # Null
  /\ RawWithKey(OrNull(idempotencyKey[r])) # {}

\* C15: when a call's raw insert is rejected by the uniqueness constraint on
\* the idempotency key, the raw table is left as it was, the call does not
\* return and does not issue the raw insert again, and it issues the lead
\* insert with its generated identifier.
C15_RawConflictIsBenign ==
  /\ [][\A r \in Reqs :
          RawKeyRejected(r) =>
            /\ leadsRaw' = leadsRaw
            /\ pc'[r] = "ingest"
            /\ result'[r] = NoResult
            /\ inflight'[r] = {"lead"}
            /\ issued'[r] = <<"raw", "lead">>]_vars
  /\ [][\A r \in Reqs :
          ("lead" \in inflight[r] /\ leads' # leads /\ pc'[r] = "done") =>
            leads' = leads \cup {row \in leads' : row.id = leadId[r]}]_vars
  /\ [](\A r \in Reqs :
          Logged(r, "Raw lead already exists (idempotency key conflict), continuing with normalized storage") =>
            /\ ~LoggedError(r, "raw_storage")
            /\ \A row \in leadsRaw : row.id # leadId[r]
            /\ Len(issued[r]) >= 2
            /\ issued[r][1] = "raw" /\ issued[r][2] = "lead"
            /\ \A i \in 2..Len(issued[r]) : issued[r][i] # "raw")

\* A call whose raw insert was rejected on the key went on and stored its
\* lead row under its own identifier.
C15_Witness ==
  \E r \in Reqs :
    /\ Logged(r, "Raw lead already exists (idempotency key conflict), continuing with normalized storage")
    /\ Created(r)
    /\ \E row \in leads : row.id = leadId[r]

\* ------------------------------------------------------------ C16

\* C16: the branch 'idempotency key conflict but existing lead not found' is
\* never taken: a lookup is issued only with a non-empty key for which a
\* lead row is stored, and a lookup that the store answers finds it.
C16_NotFoundUnreachable ==
  \A r \in Reqs :
    /\ ~Logged(r, "Idempotency key conflict but existing lead not found")
    /\ (\E i \in 1..Len(issued[r]) : issued[r][i] = "lookup") =>
         /\ ~Falsy(idempotencyKey[r])
         /\ LeadsWithKey(idempotencyKey[r]) # {}
         /\ (ReturnedValue(r) => Deduplicated(r))

\* Two calls with one key overlapped, the lead insert of one was rejected on
\* the key, and its lookup found the other's row.
C16_Witness ==
  \E r \in Reqs : \E q \in Reqs \ {r} :
    /\ Overlapped(r, q)
    /\ caught[r] \in KeyViolations
    /\ Deduplicated(r)
    /\ ReturnedId(r) = leadId[q]

\* ------------------------------------------------------------ C17

\* The store settles every operation it was given.
FairSpec ==
  Spec /\ \A r \in Reqs : WF_vars(RawCreate(r) \/ LeadCreate(r) \/ Lookup(r))

IssuedLookup(r) == \E i \in 1..Len(issued[r]) : issued[r][i] = "lookup"

\* C17: every ingestLead call issues at most one raw insert, then at most
\* one lead insert, then at most one lookup, and the lookup only after its
\* lead insert was rejected on the idempotency key; one operation at a time
\* is in flight, and every call that started ends (from some point on no
\* call is inside ingestLead).
C17_BoundedOperations ==
  /\ [](\A r \in Reqs :
          /\ issued[r] \in {<<>>, <<"raw">>, <<"raw", "lead">>,
                            <<"raw", "lead", "lookup">>}
          /\ IssuedLookup(r) =>
               /\ caught[r] \in KeyViolations
               /\ Logged(r, "Lead deduplicated (idempotency key match)")
          /\ pc[r] = "ingest" =>
               /\ Cardinality(inflight[r]) = 1
               /\ inflight[r] = {issued[r][Len(issued[r])]}
          /\ Done(r) => inflight[r] = {})
  /\ <>[](\A r \in Reqs : pc[r] # "ingest")

\* A call went through all three operations and ended.
C17_Witness ==
  \E r \in Reqs :
    /\ Done(r)
    /\ issued[r] = <<"raw", "lead", "lookup">>
    /\ Deduplicated(r)

\* ------------------------------------------------------------ C18

\* C18 as stated: every lead row has a raw row with the same identifier.
C18_AsStated ==
  \A lead \in leads : \E raw \in leadsRaw : raw.id = lead.id

\* C18: every lead row has a raw row with the same identifier or, when its
\* key is not null, a raw row with the same idempotency key.
C18_LeadHasRawCapture ==
  \A lead \in leads : \E raw \in leadsRaw :
    \/ raw.id = lead.id
    \/ lead.idempotencyKey # Null /\ raw.idempotencyKey = lead.idempotencyKey

\* A lead row stored by a call whose raw insert was rejected on the key: the
\* raw row with its key carries another call's identifier.
C18_Witness ==
  \E lead \in leads :
    /\ \A raw \in leadsRaw : raw.id # lead.id
    /\ \E raw \in leadsRaw : raw.idempotencyKey = lead.idempotencyKey

\* ------------------------------------------------------------ C19

\* Request r arrived when its key had a raw row and no lead row, and has
\* returned with none of its storage operations failed by the environment.
RetriedPartial(r) ==
  /\ partialAtArrival[r]
  /\ Ingested(r)
  /\ Done(r)
  /\ ~EnvFaulted(r)

\* No other call with the key of r was in progress while r was.
Alone(r) ==
  \A q \in Reqs \ {r} :
    (Ingested(q) /\ OrNull(idempotencyKey[q]) = OrNull(idempotencyKey[r]))
      => (q \in returnedBefore[r] \/ r \in returnedBefore[q])

\* C19 as stated: a call made when a raw row with its key exists and no lead
\* row with its key exists, and whose storage operations do not fail,
\* returns success with deduplicated = false and creates the lead row.
C19_AsStated ==
  \A r \in Reqs :
    RetriedPartial(r) =>
      /\ Created(r)
      /\ \E row \in leads :
           row.id = leadId[r] /\ row.idempotencyKey = idempotencyKey[r]

\* C19: such a call returns success and a lead row with its key is stored
\* under the identifier it returns; when no other call with the key is in
\* progress during it, it returns deduplicated = false with its own
\* identifier and the row is the one it created.
C19_PartialStateRecovered ==
  \A r \in Reqs :
    RetriedPartial(r) =>
      /\ Succeeded(r)
      /\ \E row \in leads :
           row.id = ReturnedId(r) /\ row.idempotencyKey = idempotencyKey[r]
      /\ Alone(r) => (Created(r) /\ ReturnedId(r) = leadId[r])

\* An earlier call with the key stored its raw row and failed at its lead
\* insert; the later call, alone, created the lead row.
C19_Witness ==
  \E r \in Reqs : \E q \in returnedBefore[r] :
    /\ RetriedPartial(r)
    /\ Alone(r)
    /\ LoggedError(q, "normalized_storage")
    /\ idempotencyKey[q] = idempotencyKey[r]
    /\ Created(r)

\* ------------------------------------------------------------ C20

\* C20: ingestion only adds rows: a row of either table is in the table,
\* with the same contents, after every step.
C20_RowsOnlyAdded ==
  [][leadsRaw \subseteq leadsRaw' /\ leads \subseteq leads']_vars

\* Both rows of a call are in the tables, the raw row with the payload as
\* received, after a later call with the same key has run and returned.
C20_Witness ==
  \E a \in Reqs :
    /\ Created(a)
    /\ \E row \in leadsRaw : row.id = leadId[a] /\ row.payload = body[a].fields
    /\ \E row \in leads : row.id = leadId[a]
    /\ \E b \in Reqs \ {a} :
         /\ a \in returnedBefore[b]
         /\ Done(b)
         /\ Ingested(b)
         /\ idempotencyKey[b] = idempotencyKey[a]
         /\ Succeeded(b)

\* ------------------------------------------------------------ C21

OwnRawRow(r) == {row \in leadsRaw : row.id = leadId[r]}
OwnLeadRow(r) == {row \in leads : row.id = leadId[r]}

\* C21 as stated: whenever a call returns deduplicated = true, a raw row
\* with the call's generated identifier is stored and no lead row carries
\* that identifier.
C21_AsStated ==
  \A r \in Reqs :
    Deduplicated(r) => (OwnRawRow(r) # {} /\ OwnLeadRow(r) = {})

\* C21: whenever a call returns deduplicated = true, no lead row carries its
\* generated identifier and a raw row with its key is stored; a raw row with
\* its own identifier is stored exactly when its raw insert was accepted,
\* which does not happen for a call made after a call with the same key
\* returned success.
C21_DedupRawRow ==
  \A r \in Reqs :
    Deduplicated(r) =>
      /\ OwnLeadRow(r) = {}
      /\ RawWithKey(idempotencyKey[r]) # {}
      /\ OwnRawRow(r) # {} <=> Logged(r, "Raw lead stored successfully")
      /\ OwnRawRow(r) = {} <=>
           Logged(r, "Raw lead already exists (idempotency key conflict), continuing with normalized storage")
      /\ (\E q \in returnedBefore[r] :
            Succeeded(q) /\ idempotencyKey[q] = idempotencyKey[r])
           => OwnRawRow(r) = {}

\* A sequential duplicate: the call returned deduplicated = true and left no
\* raw row of its own.
C21_Witness ==
  \E r \in Reqs : \E q \in returnedBefore[r] :
    /\ Created(q)
    /\ Deduplicated(r)
    /\ ReturnedId(r) = leadId[q]
    /\ OwnRawRow(r) = {}

\* An overlapping duplicate whose raw insert came first left an orphan row.
C21_OrphanRawRow ==
  \E r \in Reqs : Deduplicated(r) /\ OwnRawRow(r) # {}

\* ------------------------------------------------------------ C22

\* The columns of a lead row that come from the payload, with the payload
\* field each is read from.
LeadColumns ==
  { <<"clickId", "click_id">>, <<"country", "country">>, <<"creo", "creo">>,
    <<"description", "description">>, <<"domain", "domain">>,
    <<"email", "email">>, <<"firstName", "firstName">>,
    <<"lastName", "lastName">>, <<"ip", "ip">>, <<"lang", "lang">>,
    <<"marker", "marker">>, <<"offer", "offer">>, <<"phone", "phone">>,
    <<"sourcetype", "sourcetype">> }

LeadColumnNames ==
  {c[1] : c \in LeadColumns} \cup {"id", "idempotencyKey", "xRequestId", "status"}

\* The submitted value when there is one, null when there is none.
UnchangedOrNull(v) == IF v = Undefined THEN Null ELSE v

\* The submitted value when it is a non-empty string, null otherwise.
NonEmptyOrNull(v) == IF v.t = "string" /\ v.v # "" THEN v ELSE Null

LeadRowOf(r, Project(_)) ==
  \E row \in leads :
    /\ row.id = leadId[r]
    /\ \A c \in LeadColumns : row[c[1]] = Project(Field(body[r].fields, c[2]))
    /\ row.idempotencyKey = Project(idempotencyKey[r])
    /\ row.xRequestId = Project(xRequestId[r])
    /\ row.status = "new"
    /\ DOMAIN row = LeadColumnNames

\* C22 as stated: the lead row of a call that returns deduplicated = false
\* carries the call's identifier, every known payload field unchanged when
\* present and null when absent, the call's key and request id, status
\* 'new', and no assignment.
C22_AsStated ==
  \A r \in Reqs : Created(r) => LeadRowOf(r, UnchangedOrNull)

\* C22: the lead row of a call that returns deduplicated = false carries the
\* call's identifier, every known payload field unchanged when it is a
\* non-empty string and null when it is absent, null or empty, the key and
\* the request id under the same rule, status 'new', and no other column.
C22_LeadRowProjection ==
  \A r \in Reqs : Created(r) => LeadRowOf(r, NonEmptyOrNull)

\* A call with an empty first name, a null last name, absent fields and a
\* field the projection does not know has stored its lead row.
C22_Witness ==
  \E r \in Reqs :
    /\ Created(r)
    /\ body[r] = ObjectBody(PayloadB)
    /\ ~Falsy(idempotencyKey[r])
    /\ \E row \in leads :
         /\ row.id = leadId[r]
         /\ row.firstName = Null
         /\ row.clickId = Str("12345")

\* ------------------------------------------------------------ C23

\* C23 as stated: whenever a call returns success, the raw table holds a row
\* with the call's generated identifier when its key is null, and a row with
\* the call's idempotency key when its key is not null.
C23_AsStated ==
  \A r \in Reqs :
    Succeeded(r) =>
      IF idempotencyKey[r] = Null
      THEN OwnRawRow(r) # {}
      ELSE RawWithKey(idempotencyKey[r]) # {}

\* C23: whenever a call returns success, the raw table holds the row the
\* call wrote under its generated identifier (null key, payload as received)
\* when its key is null or empty, and a row with the call's idempotency key
\* when its key is a non-empty string.
C23_SuccessHasRawCapture ==
  \A r \in Reqs :
    Succeeded(r) =>
      IF Falsy(idempotencyKey[r])
      THEN \E row \in leadsRaw :
             /\ row.id = leadId[r]
             /\ row.idempotencyKey = Null
             /\ row.payload = body[r].fields
      ELSE RawWithKey(idempotencyKey[r]) # {}

\* A call without a key and a call with a key have both returned success,
\* the first with its own raw row, the second with a raw row for its key.
C23_Witness ==
  \E a \in Reqs : \E b \in Reqs \ {a} :
    /\ Succeeded(a) /\ idempotencyKey[a] = Null /\ OwnRawRow(a) # {}
    /\ Succeeded(b) /\ ~Falsy(idempotencyKey[b])
    /\ RawWithKey(idempotencyKey[b]) # {}

\* ------------------------------------------------------------ C24

\* The payload columns of `lead` are the projection of payload p.
ProjectionOf(lead, p) ==
  \A c \in LeadColumns : lead[c[1]] = NonEmptyOrNull(Field(p, c[2]))

\* C24 as stated: for every non-null key with a raw row and a lead row, the
\* lead's payload columns are the projection of the payload in the raw row.
C24_AsStated ==
  \A lead \in leads :
    lead.idempotencyKey # Null =>
      \A raw \in RawWithKey(lead.idempotencyKey) :
        ProjectionOf(lead, raw.payload)

\* C24: for every non-null key with a raw row and a lead row, each row holds
\* the payload of the call that wrote it: when the two carry one identifier
\* the lead is the projection of the raw row's payload; when they do not,
\* the lead was written by a call whose raw insert was rejected on the key
\* and is the projection of that call's payload.
C24_RowsOfOneKey ==
  \A lead \in leads :
    lead.idempotencyKey # Null =>
      \A raw \in RawWithKey(lead.idempotencyKey) :
        /\ \E q \in Reqs :
             Ingested(q) /\ leadId[q] = raw.id /\ raw.payload = body[q].fields
        /\ raw.id = lead.id => ProjectionOf(lead, raw.payload)
        /\ raw.id # lead.id =>
             \E r \in Reqs :
               /\ Ingested(r)
               /\ leadId[r] = lead.id
               /\ ProjectionOf(lead, body[r].fields)
               /\ Logged(r, "Raw lead already exists (idempotency key conflict), continuing with normalized storage")

\* One key, two submissions with different payloads: the raw row holds one,
\* the lead row is the projection of the other.
C24_Witness ==
  \E lead \in leads : \E raw \in leadsRaw :
    /\ lead.idempotencyKey # Null
    /\ raw.idempotencyKey = lead.idempotencyKey
    /\ raw.id # lead.id
    /\ raw.payload = PayloadA
    /\ ProjectionOf(lead, PayloadB)

====
